---- MODULE Spec2Model ----
(***************************************************************************)
(* A model of InComeIQ: the training pipeline (ingest -> transform ->      *)
(* evaluate & select), evaluate_model's loop over the candidate models,    *)
(* the selector of ModelTrainer.initiate, and the prediction service with  *)
(* its lazily loaded artifact cache as used by the two Flask blueprints.   *)
(***************************************************************************)
EXTENDS Integers, Sequences, FiniteSets, Bags, TLC

VARIABLES
    run_no,     \* number of TrainingPipeline.run invocations started so far
    pc,         \* position of the current invocation of TrainingPipeline.run
    log,        \* stages started in the current invocation (the "Stage n/3" log lines)
    completed,  \* stages of the current invocation that returned normally
    ingest_out, \* (train_path, test_path) as returned by DataIngestion.initiate
    arrays,     \* (train_arr, test_arr) as returned by DataPreprocessor.initiate
    stage_in,   \* what each started stage was handed as its argument
    disk,       \* the artifact files
    models,     \* the dict of estimators built by ModelTrainer.initiate
    ev,         \* the running call of evaluate_model
    saves,      \* save_object calls on MODEL_PATH made by the current invocation
    error,      \* the exception TrainingPipeline.run raised to its caller
    fault,      \* where the current invocation failed and with which original error
    outcomes,   \* how the earlier invocations of TrainingPipeline.run ended
    cache,      \* per PredictionPipeline object: its _preprocessor and _model
    req,        \* the bag of requests inside predict(): position and locals of each
    nreq,       \* number of inference requests started so far
    loads,      \* per PredictionPipeline: objects load_object returned for each
                \* artifact, and the artifacts for which it has raised
    env_pc,     \* position of the training process seen from the serving process
    ingestion,  \* the call of DataIngestion.initiate: dataset, position and locals
    prep,       \* the call of DataPreprocessor.initiate: position and locals
    fits,       \* fresh training runs on one dataset: what each run's fits produced
    web,        \* the request a Flask handler is serving: input, position, response
    call        \* the call of PredictionPipeline.predict: model, position and locals

trainVars == <<run_no, pc, log, completed, ingest_out, arrays, stage_in,
               models, saves, error, fault, outcomes>>
serveVars == <<cache, req, nreq, loads, env_pc>>
vars == <<run_no, pc, log, completed, ingest_out, arrays, stage_in, disk,
          models, ev, saves, error, fault, outcomes, cache, req, nreq, loads, env_pc,
          ingestion, prep, fits, web, call>>

(***************************************************************************)
(* Bounds of the model.                                                    *)
(***************************************************************************)
MaxRuns == 2        \* invocations of TrainingPipeline.run
MaxAcc == 2         \* accuracies are drawn from 0..MaxAcc (a scaled score)
MaxK == 3           \* size of the mappings handed to evaluate_model directly
NumThreads == 2     \* request threads of the serving process
MaxRequests == 2    \* inference requests served
MaxTrainings == 2   \* training runs that overwrite the artifacts while serving
MaxN == 4           \* rows of the raw dataset handed to DataIngestion.initiate
MaxMissing == 1     \* required columns the raw dataset may lack
MaxRows == 4        \* rows of the Train and Test frames handed to DataPreprocessor
MaxPreps == 2       \* calls of DataPreprocessor.initiate on one Train set
MaxOdd == 1         \* fields of a request that differ from a well-formed "42"
MaxP == 2           \* probabilities of a loaded model, in units of 1/MaxP
MaxImp == 2         \* largest importance, and features that carry one, in a sparse vector

Accs == 0..MaxAcc

(***************************************************************************)
(* Program constants.                                                      *)
(***************************************************************************)
\* the keys of `models` in ModelTrainer.initiate, in insertion order
ModelOrder == << "Random Forest", "Decision Tree", "Logistic Regression",
                 "Support Vector Machine", "XGBoost Classifier" >>

\* the keys of PARAM_GRIDS
PARAM_GRIDS == { "Random Forest", "Decision Tree", "Logistic Regression",
                 "XGBoost Classifier", "Support Vector Machine" }

Stages == << "ingest", "transform", "evaluate" >>
StageNames == { "ingest", "transform", "evaluate" }

Range(s) == { s[i] : i \in DOMAIN s }

Names == Range(ModelOrder)

(***************************************************************************)
(* Exceptions.  A plain exception has a text; CustomException prefixes the *)
(* text of the exception it wraps with the file name and the line number   *)
(* of the frame that caught it:                                            *)
(*   "Error in script [file] at line [line]: " + str(error)                *)
(***************************************************************************)
NoError == [raised |-> FALSE, frames |-> << >>, text |-> ""]

PyError(text) == [raised |-> TRUE, frames |-> << >>, text |-> text]

CustomException(e, file, line) ==
    [raised |-> TRUE,
     frames |-> << [file |-> file, line |-> line] >> \o e.frames,
     text   |-> e.text]

\* what a statement of a stage raises: the original exception, or, when the
\* statement is a call of a function that wraps its own failures, that wrapper
NoCallee == [file |-> "", line |-> 0]

Thrown(f) ==
    IF f.callee = NoCallee THEN PyError(f.text)
    ELSE CustomException(PyError(f.text), f.callee.file, f.callee.line)

(***************************************************************************)
(* Files.                                                                  *)
(***************************************************************************)
NoFile == [kind |-> "none", run |-> 0]

CsvFile(part, r) == [kind |-> "csv", part |-> part, run |-> r]

SaveObject(d, path, obj) == [d EXCEPT ![path] = obj]

NoOutput == [ok |-> FALSE, run |-> 0]

(***************************************************************************)
(* evaluate_model                                                          *)
(***************************************************************************)
FreshEstimator == [params |-> "default", fit |-> "none"]

\* the best parameters set and the final fit on the Train set left out
Refit_ParamsOnly(est) == [est EXCEPT !.params = "best"]

\* model.set_params(**gs.best_params_); model.fit(X_train, y_train)
Refit(est) == [est EXCEPT !.params = "best", !.fit = "train"]

\* report[model_name] = accuracy on an insertion-ordered dict
DictSet(report, k, v) ==
    IF \E i \in DOMAIN report : report[i].name = k
    THEN [i \in DOMAIN report |->
            IF report[i].name = k THEN [name |-> k, acc |-> v] ELSE report[i]]
    ELSE Append(report, [name |-> k, acc |-> v])

Keys(report) == { report[i].name : i \in DOMAIN report }

\* the return statement indented into the loop body
ReturnsAfter_InLoop(i, order) == i >= 1

\* whether `return report` is reached after iteration i of the loop
ReturnsAfter(i, order) == i = Len(order)

NoCall == [status |-> "none", order |-> << >>, grids |-> {}, i |-> 1,
           report |-> << >>, result |-> << >>, error |-> NoError,
           faulted |-> << >>]

CallEvaluate(order, grids) ==
    [status |-> "running", order |-> order, grids |-> grids, i |-> 1,
     report |-> << >>, result |-> << >>, error |-> NoError,
     faulted |-> << >>]

\* lines of evaluate_model that can raise while model order[i] is processed
EvalFaults == { [line |-> 98,  text |-> "grid search failed"],
                [line |-> 101, text |-> "invalid parameter"],
                [line |-> 102, text |-> "fit failed"],
                [line |-> 105, text |-> "predict failed"],
                [line |-> 106, text |-> "score failed"] }

\* the state an estimator is left in when line `line` raises while it is processed
EstimatorAfterFault(est, line) ==
    IF line <= 101 THEN est
    ELSE IF line = 102 THEN [est EXCEPT !.params = "best", !.fit = "none"]
    ELSE Refit(est)

\* one pass through the body of the for loop, all of its calls succeeding
Iterate(e, acc) ==
    LET rep == DictSet(e.report, e.order[e.i], acc)
    IN  IF ReturnsAfter(e.i, e.order)
        THEN [e EXCEPT !.status = "returned", !.report = rep, !.result = rep]
        ELSE [e EXCEPT !.i = e.i + 1, !.report = rep]

\* a failure that is caught inside the loop and the model skipped
OnFailure_Skip(e, line, text) ==
    IF e.i = Len(e.order)
    THEN [e EXCEPT !.status = "returned", !.result = e.report]
    ELSE [e EXCEPT !.i = e.i + 1]

\* the except clause of evaluate_model: any failure leaves through the raise
OnFailure(e, line, text) ==
    [e EXCEPT !.status = "raised", !.result = << >>,
              !.error = CustomException(PyError(text), "core/utils.py", line)]

EvalStep ==
    /\ ev.status = "running"
    /\ ev.i <= Len(ev.order)
    /\ ev.order[ev.i] \in ev.grids
    /\ \E acc \in Accs : ev' = Iterate(ev, acc)
    /\ models' = [models EXCEPT ![ev.order[ev.i]] = Refit(@)]
    /\ UNCHANGED <<run_no, pc, log, completed, ingest_out, arrays, stage_in, disk,
                   saves, error, fault, outcomes>>
    /\ UNCHANGED serveVars
    /\ UNCHANGED <<ingestion, prep, fits, web, call>>

EvalRaise ==
    /\ ev.status = "running"
    /\ ev.i <= Len(ev.order)
    /\ ev.order[ev.i] \in ev.grids
    /\ \E f \in EvalFaults :
          /\ ev' = [OnFailure(ev, f.line, f.text) EXCEPT
                      !.faulted = Append(@, [name |-> ev.order[ev.i],
                                             text |-> f.text])]
          /\ models' = [models EXCEPT
                          ![ev.order[ev.i]] = EstimatorAfterFault(@, f.line)]
    /\ UNCHANGED <<run_no, pc, log, completed, ingest_out, arrays, stage_in, disk,
                   saves, error, fault, outcomes>>
    /\ UNCHANGED serveVars
    /\ UNCHANGED <<ingestion, prep, fits, web, call>>

\* params[model_name] of a name that has no grid
EvalKeyError ==
    /\ ev.status = "running"
    /\ ev.i <= Len(ev.order)
    /\ ev.order[ev.i] \notin ev.grids
    /\ ev' = [OnFailure(ev, 93, "KeyError") EXCEPT
                !.faulted = Append(@, [name |-> ev.order[ev.i],
                                       text |-> "KeyError"])]
    /\ UNCHANGED <<run_no, pc, log, completed, ingest_out, arrays, stage_in, disk,
                   models, saves, error, fault, outcomes>>
    /\ UNCHANGED serveVars
    /\ UNCHANGED <<ingestion, prep, fits, web, call>>

\* an empty mapping: the loop body never runs and the empty report is returned
EvalEmpty ==
    /\ ev.status = "running"
    /\ Len(ev.order) = 0
    /\ ev' = [ev EXCEPT !.status = "returned", !.result = ev.report]
    /\ UNCHANGED <<run_no, pc, log, completed, ingest_out, arrays, stage_in, disk,
                   models, saves, error, fault, outcomes>>
    /\ UNCHANGED serveVars
    /\ UNCHANGED <<ingestion, prep, fits, web, call>>

(***************************************************************************)
(* ModelTrainer.initiate                                                   *)
(***************************************************************************)
NoModels == [n \in {} |-> FreshEstimator]

\* a scan that lets a later equal score replace the best so far
Better_OrEqual(candidate, best) == candidate >= best

\* the comparison max() makes between the best element so far and the next
Better(candidate, best) == candidate > best

\* max(model_report, key=model_report.get): a left-to-right scan of the keys that
\* replaces the best key so far only by one whose value compares greater
RECURSIVE MaxScan(_, _, _)
MaxScan(report, i, best) ==
    IF i > Len(report) THEN best
    ELSE MaxScan(report, i + 1,
                 IF Better(report[i].acc, report[best].acc) THEN i ELSE best)

BestModelName(report) == report[MaxScan(report, 2, 1)].name

\* the object handed to save_object: models[best_model_name]
BestModel(ms, name, r) ==
    [kind |-> "model", name |-> name, params |-> ms[name].params,
     fit |-> ms[name].fit, run |-> r]

(***************************************************************************)
(* TrainingPipeline.run                                                    *)
(***************************************************************************)
NoFault == [stage |-> "none", text |-> ""]

NoInputs == [transform |-> NoOutput, evaluate |-> NoOutput]

\* a run() that logs a stage's failure and goes on to the next stage
StageAfter_GoesOn(stage, ok) ==
    IF stage = "ingest" THEN "transform"
    ELSE IF stage = "transform" THEN "train"
    ELSE IF ok THEN "done" ELSE "failed"

\* where run() goes when a stage has returned (ok) or raised (~ok)
StageAfter(stage, ok) ==
    IF ~ok THEN "failed"
    ELSE IF stage = "ingest" THEN "transform"
    ELSE IF stage = "transform" THEN "train"
    ELSE "done"

\* the line of run() that calls the stage
CallLine(stage) ==
    IF stage = "ingest" THEN 41 ELSE IF stage = "transform" THEN 45 ELSE 51

\* a bare `raise` in the except clause of run()
RunRaises_Bare(e, stage) == e

\* the except clause of run(): raise CustomException(e, sys)
RunRaises(e, stage) == CustomException(e, "pipelines/train.py", CallLine(stage))

\* a stage raised e: run() wraps it and the invocation ends
Fails(stage, e) ==
    /\ error' = RunRaises(e, stage)
    /\ fault' = [stage |-> stage, text |-> e.text]
    /\ pc' = StageAfter(stage, FALSE)
    /\ outcomes' = IF StageAfter(stage, FALSE) = "failed"
                   THEN Append(outcomes, "failed") ELSE outcomes

RunStart ==
    /\ pc \in {"idle", "done", "failed"}
    /\ run_no < MaxRuns
    /\ run_no' = run_no + 1
    /\ pc' = "ingest"
    /\ log' = << >>
    /\ completed' = {}
    /\ ingest_out' = NoOutput
    /\ arrays' = NoOutput
    /\ stage_in' = NoInputs
    /\ models' = NoModels
    /\ ev' = NoCall
    /\ saves' = << >>
    /\ error' = NoError
    /\ fault' = NoFault
    /\ UNCHANGED <<disk, outcomes>>
    /\ UNCHANGED serveVars
    /\ UNCHANGED <<ingestion, prep, fits, web, call>>

\* DataIngestion.initiate: what can raise, and the files written before it does
IngestFaults ==
    { [line |-> 56, text |-> "read_csv failed", written |-> {}],
      [line |-> 63, text |-> "Missing columns in dataset", written |-> {}],
      [line |-> 82, text |-> "to_csv failed", written |-> {"raw"}],
      [line |-> 83, text |-> "to_csv failed", written |-> {"raw", "train"}] }

WriteCsv(d, parts, r) ==
    [f \in DOMAIN d |-> IF f \in parts THEN CsvFile(f, r) ELSE d[f]]

IngestOk ==
    /\ pc = "ingest"
    /\ log' = Append(log, "ingest")
    /\ disk' = WriteCsv(disk, {"raw", "train", "test"}, run_no)
    /\ ingest_out' = [ok |-> TRUE, run |-> run_no]
    /\ completed' = completed \cup {"ingest"}
    /\ pc' = StageAfter("ingest", TRUE)
    /\ UNCHANGED <<run_no, arrays, stage_in, models, ev, saves, error, fault,
                   outcomes>>
    /\ UNCHANGED serveVars
    /\ UNCHANGED <<ingestion, prep, fits, web, call>>

IngestFail ==
    /\ pc = "ingest"
    /\ log' = Append(log, "ingest")
    /\ \E f \in IngestFaults :
          /\ disk' = WriteCsv(disk, f.written, run_no)
          /\ Fails("ingest",
                   CustomException(PyError(f.text), "data/ingestion.py", f.line))
    /\ UNCHANGED <<run_no, completed, ingest_out, arrays, stage_in, models, ev,
                   saves>>
    /\ UNCHANGED serveVars
    /\ UNCHANGED <<ingestion, prep, fits, web, call>>

\* DataPreprocessor.initiate: what can raise (all of it before the transformer is
\* written: save_object is the last statement that can fail)
TransformFaults ==
    { [line |-> 127, text |-> "read_csv failed", callee |-> NoCallee],
      [line |-> 132, text |-> "quantile failed",
       callee |-> [file |-> "data/preprocessing.py", line |-> 86]],
      [line |-> 149, text |-> "fit_transform failed", callee |-> NoCallee],
      [line |-> 150, text |-> "transform failed", callee |-> NoCallee],
      [line |-> 157, text |-> "dump failed",
       callee |-> [file |-> "core/utils.py", line |-> 36]] }

\* the ColumnTransformer after fit_transform(X_train), X_train read from train_path
FittedTransformer(d) == [kind |-> "transformer", run |-> d.train.run]

TransformOk ==
    /\ pc = "transform"
    /\ log' = Append(log, "transform")
    /\ stage_in' = [stage_in EXCEPT !.transform = ingest_out]
    /\ disk' = SaveObject(disk, "preprocessor", FittedTransformer(disk))
    /\ arrays' = [ok |-> TRUE, run |-> disk.train.run]
    /\ completed' = completed \cup {"transform"}
    /\ pc' = StageAfter("transform", TRUE)
    /\ UNCHANGED <<run_no, ingest_out, models, ev, saves, error, fault, outcomes>>
    /\ UNCHANGED serveVars
    /\ UNCHANGED <<ingestion, prep, fits, web, call>>

TransformFail ==
    /\ pc = "transform"
    /\ log' = Append(log, "transform")
    /\ stage_in' = [stage_in EXCEPT !.transform = ingest_out]
    /\ \E f \in TransformFaults :
          Fails("transform",
                CustomException(Thrown(f), "data/preprocessing.py", f.line))
    /\ UNCHANGED <<run_no, completed, ingest_out, arrays, disk, models, ev, saves>>
    /\ UNCHANGED serveVars
    /\ UNCHANGED <<ingestion, prep, fits, web, call>>

\* ModelTrainer.initiate up to the call of evaluate_model
TrainStart ==
    /\ pc = "train"
    /\ log' = Append(log, "evaluate")
    /\ stage_in' = [stage_in EXCEPT !.evaluate = arrays]
    /\ models' = [n \in Range(ModelOrder) |-> FreshEstimator]
    /\ ev' = CallEvaluate(ModelOrder, PARAM_GRIDS)
    /\ pc' = "evaluate"
    /\ UNCHANGED <<run_no, completed, ingest_out, arrays, disk, saves, error,
                   fault, outcomes>>
    /\ UNCHANGED serveVars
    /\ UNCHANGED <<ingestion, prep, fits, web, call>>

\* evaluate_model raised: ModelTrainer.initiate wraps it, and so does run()
TrainerPropagate ==
    /\ pc = "evaluate"
    /\ ev.status = "raised"
    /\ Fails("evaluate", CustomException(ev.error, "models/trainer.py", 68))
    /\ UNCHANGED <<run_no, log, completed, ingest_out, arrays, stage_in, disk,
                   models, ev, saves>>
    /\ UNCHANGED serveVars
    /\ UNCHANGED <<ingestion, prep, fits, web, call>>

\* evaluate_model returned: select the best model, save it, return the report
TrainerSelectSave ==
    /\ pc = "evaluate"
    /\ ev.status = "returned"
    /\ ev.result # << >>
    /\ LET name == BestModelName(ev.result)
           obj  == BestModel(models, name, stage_in.evaluate.run)
       IN  /\ disk' = SaveObject(disk, "model", obj)
           /\ saves' = Append(saves, [obj |-> obj, after |-> ev.status,
                                      covered |-> Keys(ev.result)])
    /\ completed' = completed \cup {"evaluate"}
    /\ pc' = StageAfter("evaluate", TRUE)
    /\ outcomes' = Append(outcomes, "done")
    /\ UNCHANGED <<run_no, log, ingest_out, arrays, stage_in, models, ev, error,
                   fault>>
    /\ UNCHANGED serveVars
    /\ UNCHANGED <<ingestion, prep, fits, web, call>>

\* evaluate_model returned and save_object raises
TrainerSaveFail ==
    /\ pc = "evaluate"
    /\ ev.status = "returned"
    /\ ev.result # << >>
    /\ Fails("evaluate",
             CustomException(
                 CustomException(PyError("dump failed"), "core/utils.py", 36),
                 "models/trainer.py", 103))
    /\ UNCHANGED <<run_no, log, completed, ingest_out, arrays, stage_in, disk,
                   models, ev, saves>>
    /\ UNCHANGED serveVars
    /\ UNCHANGED <<ingestion, prep, fits, web, call>>

TrainNext ==
    \/ RunStart
    \/ IngestOk
    \/ IngestFail
    \/ TransformOk
    \/ TransformFail
    \/ TrainStart
    \/ EvalStep
    \/ EvalRaise
    \/ TrainerPropagate
    \/ TrainerSelectSave
    \/ TrainerSaveFail

NoDisk == [raw |-> NoFile, train |-> NoFile, test |-> NoFile,
           preprocessor |-> NoFile, model |-> NoFile]

TrainInit ==
    /\ run_no = 0
    /\ pc = "idle"
    /\ log = << >>
    /\ completed = {}
    /\ ingest_out = NoOutput
    /\ arrays = NoOutput
    /\ stage_in = NoInputs
    /\ disk = NoDisk
    /\ models = NoModels
    /\ ev = NoCall
    /\ saves = << >>
    /\ error = NoError
    /\ fault = NoFault
    /\ outcomes = << >>

ServeIdle ==
    /\ cache = << >>
    /\ req = EmptyBag
    /\ nreq = 0
    /\ loads = << >>
    /\ env_pc = "idle"

\* nothing outside the training pipeline and the prediction cache has been called
NotCalled ==
    /\ ingestion = << >>
    /\ prep = << >>
    /\ fits = << >>
    /\ web = << >>
    /\ call = << >>

Init == TrainInit /\ ServeIdle /\ NotCalled

Next == TrainNext

Spec == Init /\ [][Next]_vars

(***************************************************************************)
(* evaluate_model called on its own, with any mapping of up to MaxK models *)
(* and grids that cover the mapping or miss one name.                      *)
(***************************************************************************)
Mappings ==
    { order \in UNION { [1..k -> Names] : k \in 0..MaxK } :
        \A i, j \in DOMAIN order : i # j => order[i] # order[j] }

GridSets == { PARAM_GRIDS } \cup { PARAM_GRIDS \ {n} : n \in Names }

EvalInit ==
    /\ run_no = 0
    /\ pc = "idle"
    /\ log = << >>
    /\ completed = {}
    /\ ingest_out = NoOutput
    /\ arrays = NoOutput
    /\ stage_in = NoInputs
    /\ disk = NoDisk
    /\ saves = << >>
    /\ error = NoError
    /\ fault = NoFault
    /\ outcomes = << >>
    /\ \E order \in Mappings, grids \in GridSets :
          /\ ev = CallEvaluate(order, grids)
          /\ models = [n \in Range(order) |-> FreshEstimator]
    /\ ServeIdle
    /\ NotCalled

EvalNext ==
    \/ EvalStep
    \/ EvalRaise
    \/ EvalKeyError
    \/ EvalEmpty

SpecEval == EvalInit /\ [][EvalNext]_vars

(***************************************************************************)
(* The serving process.  web/routes.py and web/api.py each build their own *)
(* PredictionPipeline when they are imported; create_app registers both    *)
(* blueprints, and the server hands each request to a thread.              *)
(***************************************************************************)
Routes == { "form", "api" }

\* one PredictionPipeline imported by both blueprints
PipelineOf_Shared(route) == "form"

\* the module-level prediction_pipeline the handler of a route refers to
PipelineOf(route) == route

Pipelines == { PipelineOf(r) : r \in Routes }

\* PredictionPipeline.__init__
EmptyCache == [preprocessor |-> NoFile, model |-> NoFile]

\* a request entering prediction_pipeline.predict: its position, and its locals
\* (what load_object returned to it, the transformer it applied)
NewRequest(route) ==
    [pc |-> "check_pre", route |-> route, loaded |-> NoFile, used |-> NoFile]

\* the requests being served, each by a thread of its own
InFlight == BagToSet(req)

Becomes(r, r2) == req' = (req (-) SetToBag({r})) (+) SetToBag({r2})

\* predict() returns or raises: the request leaves its thread
Leaves(r) == req' = req (-) SetToBag({r})

Readable(f) == f.kind \notin { "none", "partial" }

\* the estimator training run r leaves at MODEL_PATH; which of the candidates it
\* is plays no part in how the cache is filled
TrainedModel(r) ==
    [kind |-> "model", params |-> "best", fit |-> "train", run |-> r]

Slot(r) == cache[PipelineOf(r.route)]

\* a handler has validated its input and calls prediction_pipeline.predict
StartRequest ==
    /\ BagCardinality(req) < NumThreads
    /\ nreq < MaxRequests
    /\ nreq' = nreq + 1
    /\ \E route \in Routes : req' = req (+) SetToBag({NewRequest(route)})
    /\ UNCHANGED <<cache, loads, env_pc, disk, ev>>
    /\ UNCHANGED trainVars
    /\ UNCHANGED <<ingestion, prep, fits, web, call>>

\* _load_artifacts: if self._preprocessor is None
CheckPreprocessor(r) ==
    /\ r.pc = "check_pre"
    /\ Becomes(r, [r EXCEPT !.pc = IF Slot(r).preprocessor = NoFile
                                   THEN "load_pre" ELSE "check_model"])
    /\ UNCHANGED <<cache, nreq, loads, env_pc, disk, ev>>
    /\ UNCHANGED trainVars
    /\ UNCHANGED <<ingestion, prep, fits, web, call>>

\* every slot filled from a copy of the model's load line
ArtifactPath_AllModel(slot) == "model"

\* the file an attribute is loaded from: _preprocessor from PREPROCESSOR_PATH,
\* _model from MODEL_PATH
ArtifactPath(slot) == slot

\* load_object(path) returns the object read from the file
LoadOk(r, slot, next) ==
    /\ Readable(disk[ArtifactPath(slot)])
    /\ Becomes(r, [r EXCEPT !.pc = next, !.loaded = disk[ArtifactPath(slot)]])
    /\ loads' = [loads EXCEPT ![PipelineOf(r.route)][slot] = @ + 1]
    /\ UNCHANGED <<cache, nreq, env_pc, disk, ev>>
    /\ UNCHANGED trainVars
    /\ UNCHANGED <<ingestion, prep, fits, web, call>>

\* a failed load that drops what the pipeline had cached
LoadFail_DropsCache(r, slot) ==
    /\ ~Readable(disk[ArtifactPath(slot)])
    /\ Leaves(r)
    /\ cache' = [cache EXCEPT ![PipelineOf(r.route)] = EmptyCache]
    /\ loads' = [loads EXCEPT ![PipelineOf(r.route)].failed = @ \cup { slot }]
    /\ UNCHANGED <<nreq, env_pc, disk, ev>>
    /\ UNCHANGED trainVars
    /\ UNCHANGED <<ingestion, prep, fits, web, call>>

\* load_object(path) raises: the attribute is not assigned, predict() wraps the
\* error and raises it
LoadFail(r, slot) ==
    /\ ~Readable(disk[ArtifactPath(slot)])
    /\ Leaves(r)
    /\ loads' = [loads EXCEPT ![PipelineOf(r.route)].failed = @ \cup { slot }]
    /\ UNCHANGED <<cache, nreq, env_pc, disk, ev>>
    /\ UNCHANGED trainVars
    /\ UNCHANGED <<ingestion, prep, fits, web, call>>

\* the assignment of what load_object returned to the attribute
Store(r, slot, next) ==
    /\ cache' = [cache EXCEPT ![PipelineOf(r.route)][slot] = r.loaded]
    /\ Becomes(r, [r EXCEPT !.pc = next, !.loaded = NoFile])
    /\ UNCHANGED <<nreq, loads, env_pc, disk, ev>>
    /\ UNCHANGED trainVars
    /\ UNCHANGED <<ingestion, prep, fits, web, call>>

LoadPreprocessor(r) ==
    /\ r.pc = "load_pre"
    /\ LoadOk(r, "preprocessor", "store_pre")

LoadPreprocessorFail(r) ==
    /\ r.pc = "load_pre"
    /\ LoadFail(r, "preprocessor")

StorePreprocessor(r) ==
    /\ r.pc = "store_pre"
    /\ Store(r, "preprocessor", "check_model")

\* _load_artifacts: if self._model is None
CheckModel(r) ==
    /\ r.pc = "check_model"
    /\ Becomes(r, [r EXCEPT !.pc = IF Slot(r).model = NoFile
                                   THEN "load_model" ELSE "transform"])
    /\ UNCHANGED <<cache, nreq, loads, env_pc, disk, ev>>
    /\ UNCHANGED trainVars
    /\ UNCHANGED <<ingestion, prep, fits, web, call>>

LoadModel(r) ==
    /\ r.pc = "load_model"
    /\ LoadOk(r, "model", "store_model")

LoadModelFail(r) ==
    /\ r.pc = "load_model"
    /\ LoadFail(r, "model")

StoreModel(r) ==
    /\ r.pc = "store_model"
    /\ Store(r, "model", "transform")

\* scaled = self._preprocessor.transform(features)
ApplyTransform(r) ==
    /\ r.pc = "transform"
    /\ Slot(r).preprocessor # NoFile
    /\ Becomes(r, [r EXCEPT !.pc = "predict", !.used = Slot(r).preprocessor])
    /\ UNCHANGED <<cache, nreq, loads, env_pc, disk, ev>>
    /\ UNCHANGED trainVars
    /\ UNCHANGED <<ingestion, prep, fits, web, call>>

\* prediction = self._model.predict(scaled), and the return of predict()
ApplyModel(r) ==
    /\ r.pc = "predict"
    /\ Slot(r).model # NoFile
    /\ Leaves(r)
    /\ UNCHANGED <<cache, nreq, loads, env_pc, disk, ev>>
    /\ UNCHANGED trainVars
    /\ UNCHANGED <<ingestion, prep, fits, web, call>>

(***************************************************************************)
(* A training run as the serving process sees it: the files it writes.     *)
(* joblib.dump opens the file for writing and then writes the object, so a *)
(* reader in between finds a file it cannot load.                          *)
(***************************************************************************)
\* ingestion has written its CSV files; save_object(preprocessor_path, ...) opens
EnvOpenPreprocessor ==
    /\ env_pc = "idle"
    /\ run_no < MaxTrainings
    /\ run_no' = run_no + 1
    /\ disk' = SaveObject(WriteCsv(disk, {"raw", "train", "test"}, run_no + 1),
                          "preprocessor", [kind |-> "partial", run |-> run_no + 1])
    /\ env_pc' = "pre_open"
    /\ UNCHANGED <<pc, log, completed, ingest_out, arrays, stage_in, models, ev,
                   saves, error, fault, outcomes>>
    /\ UNCHANGED <<cache, req, nreq, loads>>
    /\ UNCHANGED <<ingestion, prep, fits, web, call>>

EnvSavePreprocessor ==
    /\ env_pc = "pre_open"
    /\ disk' = SaveObject(disk, "preprocessor", FittedTransformer(disk))
    /\ env_pc' = "pre_saved"
    /\ UNCHANGED trainVars
    /\ UNCHANGED <<ingestion, prep, fits, web, call>>
    /\ UNCHANGED <<ev, cache, req, nreq, loads>>

\* the evaluation stage raises: the run ends without writing the model
EnvTrainingFails ==
    /\ env_pc = "pre_saved"
    /\ env_pc' = "idle"
    /\ UNCHANGED trainVars
    /\ UNCHANGED <<ingestion, prep, fits, web, call>>
    /\ UNCHANGED <<disk, ev, cache, req, nreq, loads>>

EnvOpenModel ==
    /\ env_pc = "pre_saved"
    /\ disk' = SaveObject(disk, "model", [kind |-> "partial", run |-> run_no])
    /\ env_pc' = "model_open"
    /\ UNCHANGED trainVars
    /\ UNCHANGED <<ingestion, prep, fits, web, call>>
    /\ UNCHANGED <<ev, cache, req, nreq, loads>>

EnvSaveModel ==
    /\ env_pc = "model_open"
    /\ disk' = SaveObject(disk, "model", TrainedModel(run_no))
    /\ env_pc' = "idle"
    /\ UNCHANGED trainVars
    /\ UNCHANGED <<ingestion, prep, fits, web, call>>
    /\ UNCHANGED <<ev, cache, req, nreq, loads>>

\* the process starts with no artifacts, or with those of an earlier training run
ServeInit ==
    /\ pc = "idle"
    /\ log = << >>
    /\ completed = {}
    /\ ingest_out = NoOutput
    /\ arrays = NoOutput
    /\ stage_in = NoInputs
    /\ models = NoModels
    /\ ev = NoCall
    /\ saves = << >>
    /\ error = NoError
    /\ fault = NoFault
    /\ outcomes = << >>
    /\ \/ run_no = 0 /\ disk = NoDisk
       \/ /\ run_no = 1
          /\ disk = [raw |-> CsvFile("raw", 1), train |-> CsvFile("train", 1),
                     test |-> CsvFile("test", 1),
                     preprocessor |-> [kind |-> "transformer", run |-> 1],
                     model |-> TrainedModel(1)]
    /\ cache = [p \in Pipelines |-> EmptyCache]
    /\ req = EmptyBag
    /\ nreq = 0
    /\ loads = [p \in Pipelines |-> [preprocessor |-> 0, model |-> 0, failed |-> {}]]
    /\ env_pc = "idle"
    /\ NotCalled

ServeNext ==
    \/ StartRequest
    \/ \E r \in InFlight : CheckPreprocessor(r)
    \/ \E r \in InFlight : LoadPreprocessor(r)
    \/ \E r \in InFlight : LoadPreprocessorFail(r)
    \/ \E r \in InFlight : StorePreprocessor(r)
    \/ \E r \in InFlight : CheckModel(r)
    \/ \E r \in InFlight : LoadModel(r)
    \/ \E r \in InFlight : LoadModelFail(r)
    \/ \E r \in InFlight : StoreModel(r)
    \/ \E r \in InFlight : ApplyTransform(r)
    \/ \E r \in InFlight : ApplyModel(r)
    \/ EnvOpenPreprocessor
    \/ EnvSavePreprocessor
    \/ EnvTrainingFails
    \/ EnvOpenModel
    \/ EnvSaveModel

SpecServe == ServeInit /\ [][ServeNext]_vars

(***************************************************************************)
(* DataIngestion.initiate on a raw dataset of n rows.  A row is known by   *)
(* its position in the dataset (the index pandas gives it).                *)
(***************************************************************************)
\* config/feature_config.py is not among the sources; the twelve fields of the
\* Feature Row, named as CustomInput names them
NUMERICAL_FEATURES ==
    << "age", "workclass", "education_num", "marital_status", "occupation",
       "relationship", "race", "sex", "capital_gain", "capital_loss",
       "hours_per_week", "native_country" >>

\* expected_columns = NUMERICAL_FEATURES + [TARGET_COLUMN]
ExpectedColumns == Range(NUMERICAL_FEATURES) \cup { "income" }

\* missing = set(expected_columns) - set(data.columns)
MissingColumns(columns) == ExpectedColumns \ columns

TEST_SIZE_PERCENT == 30

\* a split that truncates test_size * n_samples
TestSize_Floor(n) == (TEST_SIZE_PERCENT * n) \div 100

\* train_test_split(data, test_size=TEST_SIZE): n_test = ceil(test_size * n_samples)
TestSize(n) == (TEST_SIZE_PERCENT * n + 99) \div 100

\* the orders random_state can shuffle n rows into
ShuffledOrders(n) ==
    { f \in [1..n -> 1..n] : \A i, j \in 1..n : i # j => f[i] # f[j] }

DataFile(part, r, rows) == [kind |-> "csv", part |-> part, run |-> r, rows |-> rows]

\* column validation placed after the raw artifact is saved
NextStep_ValidateLate(step) ==
    IF step = "read" THEN "write_raw"
    ELSE IF step = "write_raw" THEN "validate"
    ELSE IF step = "validate" THEN "split"
    ELSE IF step = "split" THEN "write_train"
    ELSE IF step = "write_train" THEN "write_test"
    ELSE "returned"

\* the statements of initiate in the order they are written
NextStep(step) ==
    IF step = "read" THEN "validate"
    ELSE IF step = "validate" THEN "write_raw"
    ELSE IF step = "write_raw" THEN "split"
    ELSE IF step = "split" THEN "write_train"
    ELSE IF step = "write_train" THEN "write_test"
    ELSE "returned"

\* DataIngestion().initiate() entered, with the dataset at RAW_DATA_FILE and the
\* artifact files as they are
CallIngestion(dataset, files) ==
    [pc |-> "read", source |-> dataset, before |-> files, columns |-> {}, n |-> 0,
     missing |-> {}, train_set |-> << >>, test_set |-> << >>, written |-> << >>,
     error |-> NoError]

\* the except clause of initiate: raise CustomException(e, sys)
IngestionRaises(text, line) ==
    [ingestion EXCEPT
        !.pc = "raised",
        !.error = CustomException(PyError(text), "data/ingestion.py", line)]

\* data = pd.read_csv(self.config.raw_data_source)
ReadCsv ==
    /\ ingestion.pc = "read"
    /\ ingestion' = [ingestion EXCEPT !.pc = NextStep("read"),
                                      !.columns = ingestion.source.columns,
                                      !.n = ingestion.source.n]
    /\ UNCHANGED <<trainVars, serveVars, disk, ev, prep, fits, web, call>>

\* if missing: raise ValueError(f"Missing columns in dataset: {missing}")
ValidateColumns ==
    /\ ingestion.pc = "validate"
    /\ LET missing == MissingColumns(ingestion.columns)
       IN  ingestion' =
             IF missing # {}
             THEN [IngestionRaises(<<"Missing columns in dataset", missing>>, 63)
                      EXCEPT !.missing = missing]
             ELSE [ingestion EXCEPT !.pc = NextStep("validate")]
    /\ UNCHANGED <<trainVars, serveVars, disk, ev, prep, fits, web, call>>

\* data.to_csv(self.config.raw_artifact_path, index=False)
WriteRaw ==
    /\ ingestion.pc = "write_raw"
    /\ disk' = SaveObject(disk, "raw",
                          DataFile("raw", 1, [i \in 1..ingestion.n |-> i]))
    /\ ingestion' = [ingestion EXCEPT !.pc = NextStep("write_raw"),
                                      !.written = Append(@, "raw")]
    /\ UNCHANGED <<trainVars, serveVars, ev, prep, fits, web, call>>

\* train_set, test_set = train_test_split(data, test_size, random_state): with
\* n_train = n_samples - n_test, the first n_test rows of the shuffled order are
\* Test and the next n_train are Train; an empty Train set is a ValueError
SplitData ==
    /\ ingestion.pc = "split"
    /\ LET n_test  == TestSize(ingestion.n)
           n_train == ingestion.n - TestSize(ingestion.n)
       IN  IF n_train <= 0
           THEN ingestion' =
                   IngestionRaises("the resulting train set will be empty", 72)
           ELSE \E perm \in ShuffledOrders(ingestion.n) :
                   ingestion' =
                      [ingestion EXCEPT
                         !.pc = NextStep("split"),
                         !.test_set = SubSeq(perm, 1, n_test),
                         !.train_set = SubSeq(perm, n_test + 1, n_test + n_train)]
    /\ UNCHANGED <<trainVars, serveVars, disk, ev, prep, fits, web, call>>

\* train_set.to_csv(self.config.train_path, index=False, header=True)
WriteTrain ==
    /\ ingestion.pc = "write_train"
    /\ disk' = SaveObject(disk, "train", DataFile("train", 1, ingestion.train_set))
    /\ ingestion' = [ingestion EXCEPT !.pc = NextStep("write_train"),
                                      !.written = Append(@, "train")]
    /\ UNCHANGED <<trainVars, serveVars, ev, prep, fits, web, call>>

\* test_set.to_csv(self.config.test_path, index=False, header=True), and the return
WriteTest ==
    /\ ingestion.pc = "write_test"
    /\ disk' = SaveObject(disk, "test", DataFile("test", 1, ingestion.test_set))
    /\ ingestion' = [ingestion EXCEPT !.pc = NextStep("write_test"),
                                      !.written = Append(@, "test")]
    /\ UNCHANGED <<trainVars, serveVars, ev, prep, fits, web, call>>

\* read_csv or a to_csv call raises, the file it was to write left as it was
IngestIoFails ==
    /\ ingestion.pc \in { "read", "write_raw", "write_train", "write_test" }
    /\ ingestion' = IngestionRaises("I/O failed",
                        IF ingestion.pc = "read" THEN 56
                        ELSE IF ingestion.pc = "write_raw" THEN 69
                        ELSE IF ingestion.pc = "write_train" THEN 82 ELSE 83)
    /\ UNCHANGED <<trainVars, serveVars, disk, ev, prep, fits, web, call>>

\* the artifacts an earlier run of the pipeline left
EarlierArtifacts ==
    [raw |-> DataFile("raw", 0, << >>), train |-> DataFile("train", 0, << >>),
     test |-> DataFile("test", 0, << >>),
     preprocessor |-> [kind |-> "transformer", run |-> 0],
     model |-> [kind |-> "model", run |-> 0]]

\* no invocation of TrainingPipeline.run has been made
TrainIdle ==
    /\ run_no = 0
    /\ pc = "idle"
    /\ log = << >>
    /\ completed = {}
    /\ ingest_out = NoOutput
    /\ arrays = NoOutput
    /\ stage_in = NoInputs
    /\ models = NoModels
    /\ ev = NoCall
    /\ saves = << >>
    /\ error = NoError
    /\ fault = NoFault
    /\ outcomes = << >>

\* initiate is called on a dataset of up to MaxN rows that lacks up to MaxMissing
\* of the expected columns, with no artifacts yet or with those of an earlier run
IngestInit ==
    /\ TrainIdle
    /\ ServeIdle
    /\ disk \in { NoDisk, EarlierArtifacts }
    /\ \E gone \in { g \in SUBSET ExpectedColumns : Cardinality(g) <= MaxMissing },
          n \in 0..MaxN :
          ingestion = CallIngestion([columns |-> ExpectedColumns \ gone, n |-> n],
                                    disk)
    /\ prep = << >>
    /\ fits = << >>
    /\ web = << >>
    /\ call = << >>

IngestNext ==
    \/ ReadCsv
    \/ ValidateColumns
    \/ WriteRaw
    \/ SplitData
    \/ WriteTrain
    \/ WriteTest
    \/ IngestIoFails

SpecIngest == IngestInit /\ [][IngestNext]_vars

(***************************************************************************)
(* DataPreprocessor.initiate on the Train and Test frames ingestion wrote. *)
(* A frame is one numeric column (each column is capped, imputed and       *)
(* scaled from its own values alone), a cell an integer or missing (NaN).  *)
(* Floats are kept exact: a capped cell counts eighths, a fitted statistic *)
(* sixteenths.                                                             *)
(***************************************************************************)
NaN == [nan |-> TRUE, v |-> 0]

Num(v) == [nan |-> FALSE, v |-> v]

\* the values a cell of the raw dataset takes
CellValues == { 0, 1 }

\* the cells of a column that hold a value, in ascending order
Present(col) ==
    SortSeq(SelectSeq(col, LAMBDA c : ~c.nan), LAMBDA a, b : a.v < b.v)

\* 4 * df[column].quantile(k / 4) for k = 1 or 3: pandas interpolates linearly
\* between the two values around position (k / 4) * (m - 1) of the m sorted values
Quantile4(col, k) ==
    LET s  == Present(col)
        lo == (k * (Len(s) - 1)) \div 4
        r  == (k * (Len(s) - 1)) % 4
    IN  IF r = 0 THEN 4 * s[lo + 1].v
        ELSE 4 * s[lo + 1].v + r * (s[lo + 2].v - s[lo + 1].v)

\* upper_limit = q3 + 1.5 * iqr and lower_limit = q1 - 1.5 * iqr, in eighths; a
\* column without a value has NaN quantiles and NaN limits
Limits(col) ==
    IF Present(col) = << >> THEN [nan |-> TRUE, lower |-> 0, upper |-> 0]
    ELSE [nan   |-> FALSE,
          lower |-> 5 * Quantile4(col, 1) - 3 * Quantile4(col, 3),
          upper |-> 5 * Quantile4(col, 3) - 3 * Quantile4(col, 1)]

\* the rows outside the limits dropped from the frame
Cap_DropOutliers(col) ==
    LET lim == Limits(col)
        out == SelectSeq(col, LAMBDA c : c.nan \/ lim.nan
                                 \/ (8 * c.v >= lim.lower /\ 8 * c.v <= lim.upper))
    IN  [i \in DOMAIN out |-> IF out[i].nan THEN NaN ELSE Num(8 * out[i].v)]

\* _cap_outliers_iqr(df, column): the column cast to float, then the cells above
\* upper_limit set to it and the cells below lower_limit set to it; a comparison
\* with NaN is false, so a missing cell stays missing
Cap(col) ==
    LET lim == Limits(col)
    IN  [i \in DOMAIN col |->
            IF col[i].nan THEN NaN
            ELSE IF lim.nan THEN Num(8 * col[i].v)
            ELSE IF 8 * col[i].v > lim.upper THEN Num(lim.upper)
            ELSE IF 8 * col[i].v < lim.lower THEN Num(lim.lower)
            ELSE Num(8 * col[i].v)]

RECURSIVE SeqSum(_)
SeqSum(s) == IF s = << >> THEN 0 ELSE Head(s) + SeqSum(Tail(s))

\* SimpleImputer(strategy="median").transform: a missing cell takes the median
Impute(col, median) ==
    [i \in DOMAIN col |-> IF col[i].nan THEN median ELSE 2 * col[i].v]

\* the ColumnTransformer before it is fitted
Unfitted == [fitted |-> FALSE, median |-> 0, n |-> 0, sum |-> 0, sumsq |-> 0]

\* fit on a capped column: the imputer learns the median of the values present,
\* the scaler the mean and variance of the imputed column (kept as n, sum, sumsq)
Fit(col) ==
    LET s      == Present(col)
        median == s[(Len(s) + 1) \div 2].v + s[(Len(s) + 2) \div 2].v
        x      == Impute(col, median)
    IN  [fitted |-> TRUE, median |-> median, n |-> Len(x), sum |-> SeqSum(x),
         sumsq |-> SeqSum([i \in DOMAIN x |-> x[i] * x[i]])]

\* transform with fitted statistics: impute, then centre on the learned mean (the
\* numerator n * x - sum of x - mean; the learned deviation divides every cell alike)
Transform(pre, col) ==
    LET x == Impute(col, pre.median)
    IN  [i \in DOMAIN x |-> pre.n * x[i] - pre.sum]

\* the preprocessor fitted on Train and Test together
FitInput_All(train_df, test_df) == train_df \o test_df

\* what fit_transform is handed: X_train
FitInput(train_df, test_df) == train_df

\* DataPreprocessor().initiate(train_path, test_path) entered
CallPrep(r, persisted) ==
    [pc |-> "read", run |-> r, train_df |-> << >>, test_df |-> << >>,
     preprocessor |-> Unfitted, calls |-> << >>, train_arr |-> << >>,
     test_arr |-> << >>, persisted |-> persisted, error |-> NoError]

\* the except clause of initiate: raise CustomException(e, sys)
PrepRaises(text, line) ==
    [prep EXCEPT !.pc = "raised",
                 !.error = CustomException(PyError(text), "data/preprocessing.py",
                                           line)]

\* read both CSV files, then cap every numeric column of Train and of Test
PrepReadAndCap ==
    /\ prep.pc = "read"
    /\ prep' = [prep EXCEPT !.pc = "fit",
                            !.train_df = Cap(disk.train.rows),
                            !.test_df = Cap(disk.test.rows)]
    /\ UNCHANGED <<trainVars, serveVars, disk, ev, ingestion, fits, web, call>>

\* X_train_transformed = preprocessor.fit_transform(X_train); sklearn refuses a
\* frame without rows and a column without a value
PrepFit ==
    /\ prep.pc = "fit"
    /\ LET X == FitInput(prep.train_df, prep.test_df)
       IN  prep' =
             IF Present(X) = << >>
             THEN PrepRaises("fit_transform failed", 149)
             ELSE [prep EXCEPT
                     !.pc = "transform",
                     !.preprocessor = Fit(X),
                     !.calls = Append(@, <<"fit_transform", "X_train">>),
                     !.train_arr = Transform(Fit(X), prep.train_df)]
    /\ UNCHANGED <<trainVars, serveVars, disk, ev, ingestion, fits, web, call>>

\* X_test_transformed = preprocessor.transform(X_test); sklearn refuses a frame
\* without rows
PrepTransform ==
    /\ prep.pc = "transform"
    /\ prep' =
          IF prep.test_df = << >>
          THEN PrepRaises("transform failed", 150)
          ELSE [prep EXCEPT
                  !.pc = "save",
                  !.calls = Append(@, <<"transform", "X_test">>),
                  !.test_arr = Transform(prep.preprocessor, prep.test_df)]
    /\ UNCHANGED <<trainVars, serveVars, disk, ev, ingestion, fits, web, call>>

\* save_object(preprocessor_path, preprocessor), and the return
PrepSave ==
    /\ prep.pc = "save"
    /\ disk' = SaveObject(disk, "preprocessor",
                          [kind |-> "transformer", run |-> prep.run,
                           stats |-> prep.preprocessor])
    /\ prep' = [prep EXCEPT !.pc = "returned",
                            !.persisted = Append(@, prep.preprocessor)]
    /\ UNCHANGED <<trainVars, serveVars, ev, ingestion, fits, web, call>>

\* the frames ingestion can have written: up to MaxRows cells, taken with their
\* rows in ascending order and the missing cells last (the quantiles, the median,
\* the mean and the capping of a cell do not depend on the order of the rows)
Frames ==
    { f \in UNION { [1..n -> { NaN } \cup { Num(v) : v \in CellValues }] :
                       n \in 0..MaxRows } :
        \A i, j \in DOMAIN f :
            i < j => (f[j].nan \/ (~f[i].nan /\ f[i].v <= f[j].v)) }

\* the pipeline runs again on a dataset that has the same Train set and another
\* Test set: ingestion rewrites test.csv, and initiate is called anew
PrepAgain ==
    /\ prep.pc \in { "returned", "raised" }
    /\ prep.run < MaxPreps
    /\ \E frame \in Frames :
          /\ frame # disk.test.rows
          /\ disk' = SaveObject(disk, "test", DataFile("test", prep.run + 1, frame))
    /\ prep' = CallPrep(prep.run + 1, prep.persisted)
    /\ UNCHANGED <<trainVars, serveVars, ev, ingestion, fits, web, call>>

PrepInit ==
    /\ TrainIdle
    /\ ServeIdle
    /\ \E train \in Frames, test \in Frames :
          disk = [NoDisk EXCEPT !.train = DataFile("train", 1, train),
                                !.test = DataFile("test", 1, test)]
    /\ prep = CallPrep(1, << >>)
    /\ ingestion = << >>
    /\ fits = << >>
    /\ web = << >>
    /\ call = << >>

PrepNext ==
    \/ PrepReadAndCap
    \/ PrepFit
    \/ PrepTransform
    \/ PrepSave
    \/ PrepAgain

SpecPrep == PrepInit /\ [][PrepNext]_vars

(***************************************************************************)
(* Two fresh runs of the training pipeline on one dataset.  RANDOM_STATE   *)
(* seeds the split only; the estimators are built without a random_state,  *)
(* so those that draw random numbers while they fit draw from an unseeded  *)
(* generator.                                                              *)
(***************************************************************************)
\* what fitting one candidate yields: its accuracy on Test, and the label the
\* refit estimator predicts for the Feature Row under consideration
FitOutcomes == [acc : Accs, label : { 0, 1 }]

\* the estimators whose fit is randomized: RandomForestClassifier() (bootstrap and
\* feature sampling), DecisionTreeClassifier() (feature permutation, and the
\* "random" splitter of its grid), LogisticRegression() (liblinear and saga
\* shuffle the data); SVC's labels and XGBoost's default seed do not vary
Randomized == { "Random Forest", "Decision Tree", "Logistic Regression" }

NotRun == [done |-> FALSE, selected |-> "", acc |-> 0, label |-> 0]

\* TrainingPipeline().run() from the top: the seeded split and the preprocessing
\* give every run the same arrays, each candidate is searched and refit, the first
\* best name of the report is selected and its estimator saved
FreshRun(which) ==
    /\ ~fits[which].done
    /\ which = "second" => fits.first.done
    /\ \E drawn \in [Randomized -> FitOutcomes] :
          LET outcome(n) == IF n \in Randomized THEN drawn[n] ELSE fits.given[n]
              report == [i \in DOMAIN ModelOrder |->
                           [name |-> ModelOrder[i], acc |-> outcome(ModelOrder[i]).acc]]
              best   == BestModelName(report)
          IN  fits' = [fits EXCEPT ![which] =
                         [done |-> TRUE, selected |-> best,
                          acc |-> outcome(best).acc, label |-> outcome(best).label]]
    /\ UNCHANGED <<trainVars, serveVars, disk, ev, ingestion, prep, web, call>>

\* the dataset fixes what the fits that draw no random numbers yield
RepeatInit ==
    /\ TrainIdle
    /\ ServeIdle
    /\ disk = NoDisk
    /\ \E given \in [Names \ Randomized -> FitOutcomes] :
          fits = [given |-> given, first |-> NotRun, second |-> NotRun]
    /\ ingestion = << >>
    /\ prep = << >>
    /\ web = << >>
    /\ call = << >>

RepeatNext ==
    \/ FreshRun("first")
    \/ FreshRun("second")

SpecRepeat == RepeatInit /\ [][RepeatNext]_vars

(***************************************************************************)
(* The two entry points: the form handler of web/routes.py and the JSON    *)
(* handler of web/api.py.  A text is the sequence of its characters.       *)
(***************************************************************************)
\* what request.form.get(field) can return: None for an absent field, or a text
FormValues ==
    { [t |-> "none", s |-> << >>],
      [t |-> "str", s |-> << >>],
      [t |-> "str", s |-> << " " >>],
      [t |-> "str", s |-> << "4", "2" >>],
      [t |-> "str", s |-> << " ", "7", " " >>],
      [t |-> "str", s |-> << "-", "5" >>],
      [t |-> "str", s |-> << "2", "0", "0" >>],
      [t |-> "str", s |-> << "a", "b", "c" >>],
      [t |-> "str", s |-> << "3", ".", "5" >> ] }

\* what request.get_json().get(field) can return besides: a JSON number or array
JsonValues ==
    FormValues \cup { [t |-> "int", s |-> << "4", "2" >>],
                      [t |-> "float", s |-> << "3", ".", "5" >>],
                      [t |-> "list", s |-> << >>] }

\* value.strip()
Strip(s) ==
    LET kept == { i \in DOMAIN s : s[i] # " " }
    IN  IF kept = {} THEN << >>
        ELSE SubSeq(s, CHOOSE i \in kept : \A j \in kept : i <= j,
                       CHOOSE i \in kept : \A j \in kept : i >= j)

DecimalDigits == << "0", "1", "2", "3", "4", "5", "6", "7", "8", "9" >>

RECURSIVE DecimalValue(_)
DecimalValue(ds) ==
    IF ds = << >> THEN 0
    ELSE 10 * DecimalValue(SubSeq(ds, 1, Len(ds) - 1))
         + (CHOOSE d \in 0..9 : DecimalDigits[d + 1] = ds[Len(ds)])

\* int(value) of a text: surrounding blanks dropped, an optional sign, then digits
\* only; anything else is a ValueError
IntOf(s) ==
    LET t      == Strip(s)
        signed == t # << >> /\ t[1] \in { "-", "+" }
        body   == IF signed THEN Tail(t) ELSE t
    IN  IF body = << >> \/ \E i \in DOMAIN body : body[i] \notin Range(DecimalDigits)
        THEN [ok |-> FALSE, n |-> 0]
        ELSE [ok |-> TRUE,
              n  |-> IF signed /\ t[1] = "-" THEN 0 - DecimalValue(body)
                     ELSE DecimalValue(body)]

\* the body of the validator's loop for one field: None or a blank text is
\* missing; value.strip() of anything but a text raises AttributeError, which
\* nothing catches; a text int() refuses is invalid
FieldCheck(value) ==
    IF value.t = "none" THEN "missing"
    ELSE IF value.t # "str" THEN "raises"
    ELSE IF Strip(value.s) = << >> THEN "missing"
    ELSE IF ~IntOf(value.s).ok THEN "invalid"
    ELSE "ok"

\* validate_prediction_input(form_data): the fields in the order of
\* required_fields, the first one that fails decides; then the range checks
Validate(form) ==
    LET fields == NUMERICAL_FEATURES
        bad    == { i \in DOMAIN fields : FieldCheck(form[fields[i]]) # "ok" }
        first  == CHOOSE i \in bad : \A j \in bad : i <= j
        parsed == [f \in Range(fields) |-> IntOf(form[f].s).n]
        Result(status, field, message) ==
            [status |-> status, field |-> field, message |-> message]
    IN  IF bad # {}
        THEN LET check == FieldCheck(form[fields[first]])
             IN  IF check = "raises"
                 THEN Result("raised", fields[first], "AttributeError")
                 ELSE IF check = "missing"
                 THEN Result("error", fields[first], "Missing required field")
                 ELSE Result("error", fields[first], "must be a number")
        ELSE IF parsed["age"] < 0 \/ parsed["age"] > 120
        THEN Result("error", "age", "Age must be between 0 and 120")
        ELSE IF parsed["hours_per_week"] < 0 \/ parsed["hours_per_week"] > 168
        THEN Result("error", "hours_per_week",
                    "Hours per week must be between 0 and 168")
        ELSE IF parsed["capital_gain"] < 0
        THEN Result("error", "capital_gain", "Capital gain cannot be negative")
        ELSE IF parsed["capital_loss"] < 0
        THEN Result("error", "capital_loss", "Capital loss cannot be negative")
        ELSE Result("ok", "", "")

\* the statements of predict() that can raise, as its except clause reports them:
\* CustomException(e, sys) names predict.py and the line of the failing call
PredictFaults ==
    { CustomException(
         CustomException(PyError("load failed"), "core/utils.py", 54),
         "pipelines/predict.py", 65),
      CustomException(PyError("transform failed"), "pipelines/predict.py", 67),
      CustomException(PyError("predict failed"), "pipelines/predict.py", 70) }

NoResponse == [kind |-> "none", status |-> 0, field |-> "", description |-> ""]

\* the handler validates the input first: an error is rendered into the form page
\* (routes.py) or returned as JSON with status 400 (api.py); an exception of the
\* validator is caught by neither and leaves the view
HandleValidate ==
    /\ web.pc = "validate"
    /\ LET v == Validate(web.form)
       IN  web' =
             IF v.status = "ok" THEN [web EXCEPT !.pc = "predict"]
             ELSE IF v.status = "error"
             THEN [web EXCEPT
                     !.pc = "done",
                     !.resp = [kind |-> "error",
                               status |-> IF web.route = "api" THEN 400 ELSE 200,
                               field |-> v.field, description |-> v.message]]
             ELSE [web EXCEPT
                     !.pc = "done",
                     !.resp = [kind |-> "fault", status |-> 500, field |-> "",
                               description |-> "Internal Server Error"]]
    /\ UNCHANGED <<trainVars, serveVars, disk, ev, ingestion, prep, fits, call>>

\* prediction_pipeline.predict(features_df) returns and the result is rendered
HandlePredictReturns ==
    /\ web.pc = "predict"
    /\ \E label \in { 0, 1 } :
          web' = [web EXCEPT
                    !.pc = "done", !.invoked = TRUE,
                    !.resp = [kind |-> "result", status |-> 200, field |-> "",
                              description |-> label]]
    /\ UNCHANGED <<trainVars, serveVars, disk, ev, ingestion, prep, fits, call>>

\* prediction_pipeline.predict(features_df) raises: api.py catches every exception
\* and returns str(e) with status 500; routes.py has no handler around the call
HandlePredictRaises ==
    /\ web.pc = "predict"
    /\ \E e \in PredictFaults :
          web' = [web EXCEPT
                    !.pc = "done", !.invoked = TRUE, !.failure = e,
                    !.resp = IF web.route = "api"
                             THEN [kind |-> "error", status |-> 500, field |-> "",
                                   description |-> e]
                             ELSE [kind |-> "fault", status |-> 500, field |-> "",
                                   description |-> "Internal Server Error"]]
    /\ UNCHANGED <<trainVars, serveVars, disk, ev, ingestion, prep, fits, call>>

\* a POST arrives on a route with twelve fields, all "42" but up to MaxOdd of them
HandlerInit ==
    /\ TrainIdle
    /\ ServeIdle
    /\ disk = NoDisk
    /\ \E route \in Routes,
          odd \in { o \in SUBSET Range(NUMERICAL_FEATURES) : Cardinality(o) <= MaxOdd } :
          \E values \in [odd -> IF route = "api" THEN JsonValues ELSE FormValues] :
             web = [route |-> route, pc |-> "validate", invoked |-> FALSE,
                    failure |-> NoError, resp |-> NoResponse,
                    form |-> [f \in Range(NUMERICAL_FEATURES) |->
                                IF f \in odd THEN values[f]
                                ELSE [t |-> "str", s |-> << "4", "2" >>]]]
    /\ ingestion = << >>
    /\ prep = << >>
    /\ fits = << >>
    /\ call = << >>

HandlerNext ==
    \/ HandleValidate
    \/ HandlePredictReturns
    \/ HandlePredictRaises

SpecHandler == HandlerInit /\ [][HandlerNext]_vars

(***************************************************************************)
(* One call of PredictionPipeline.predict on a loaded model, statement by  *)
(* statement.  A Python value is a record of its type t and its content s. *)
(***************************************************************************)
None == [t |-> "none", s |-> << >>]

TOP_N == 8

\* model.feature_importances_ of the loaded models: sparse vectors (at most
\* MaxImp features above zero) and the two vectors in which no two features tie
ImportanceVectors ==
    LET n == Len(NUMERICAL_FEATURES)
    IN  UNION { { [i \in 1..n |-> IF i \in S THEN v[i] ELSE 0] : v \in [S -> 1..MaxImp] }
                : S \in { T \in SUBSET (1..n) : Cardinality(T) <= MaxImp } }
        \cup { [i \in 1..n |-> i], [i \in 1..n |-> n + 1 - i] }

\* the objects model.pkl can hold, as far as predict() uses them: the label
\* predict() gives the row, predict_proba and classes_ if present, and
\* feature_importances_ if present.  Nothing ties the label to the largest
\* probability.
LoadedModels ==
    LET Model(label, proba, classes, vector, importances, given) ==
            [label |-> label, has_proba |-> proba, classes |-> classes,
             proba |-> vector, has_importances |-> importances,
             importances |-> given]
        flat == [i \in 1..Len(NUMERICAL_FEATURES) |-> 1]
    IN  UNION { { Model(l, TRUE, c, p, hi, flat)
                  : l \in { 0, 1 }, p \in [1..Len(c) -> 0..MaxP], hi \in BOOLEAN }
                : c \in { << 0, 1 >>, << 1, 0 >>, << 0 >>, << 1 >> } }
        \cup { Model(l, hp, << 0, 1 >>, << 0, MaxP >>, TRUE, imp)
               : l \in { 0, 1 }, hp \in BOOLEAN, imp \in ImportanceVectors }
        \cup { Model(l, FALSE, << 0, 1 >>, << 0, MaxP >>, FALSE, flat) : l \in { 0, 1 } }

\* the position of the largest probability
ClassIndex_ArgMax(model, pred_class) ==
    CHOOSE i \in DOMAIN model.proba : \A j \in DOMAIN model.proba :
       model.proba[i] > model.proba[j] \/ (model.proba[i] = model.proba[j] /\ i <= j)

\* list(self._model.classes_).index(pred_class): the position of the predicted
\* class, 0 standing for the ValueError of a class that is not listed
ClassIndex(model, pred_class) ==
    IF \E i \in DOMAIN model.classes : model.classes[i] = pred_class
    THEN CHOOSE i \in DOMAIN model.classes :
            /\ model.classes[i] = pred_class
            /\ \A j \in 1..(i - 1) : model.classes[j] # pred_class
    ELSE 0

\* the block run without hasattr and without try
Guarded_Unchecked(has, tried) == tried.value

\* `if hasattr(model, attr): try: ... except Exception: logger.warning(...)`:
\* the value stays None unless the attribute exists and the block runs through
Guarded(has, tried) ==
    IF has /\ ~tried.raised THEN tried.value ELSE None

\* lines 74-84: the probability of the predicted class
Probability(model, pred_class) ==
    LET class_idx == ClassIndex(model, pred_class)
        tried == IF ~model.has_proba
                 THEN [raised |-> TRUE, value |-> [t |-> "error", s |-> "AttributeError"]]
                 ELSE IF class_idx = 0
                 THEN [raised |-> TRUE, value |-> [t |-> "error", s |-> "ValueError"]]
                 ELSE [raised |-> FALSE,
                       value |-> [t |-> "float", s |-> model.proba[class_idx]]]
    IN  Guarded(model.has_proba, tried)

\* np.argsort(importances) without the reversal
ArgSort_Ascending(importances, low_first) ==
    LET n == Len(NUMERICAL_FEATURES)
        Before(j, i) ==
            \/ importances[j] < importances[i]
            \/ importances[j] = importances[i] /\ (IF low_first THEN j < i ELSE j > i)
    IN  [k \in 1..n |->
           CHOOSE i \in 1..n : Cardinality({ j \in 1..n : Before(j, i) }) = k - 1]

\* np.argsort(importances)[::-1]: the positions by ascending importance, reversed.
\* The order argsort gives equal values is not specified: low_first says whether it
\* put the lower position first.
ArgSortReversed(importances, low_first) ==
    LET n == Len(NUMERICAL_FEATURES)
        Before(j, i) ==
            \/ importances[j] < importances[i]
            \/ importances[j] = importances[i] /\ (IF low_first THEN j < i ELSE j > i)
        ascending == [k \in 1..n |->
                        CHOOSE i \in 1..n :
                           Cardinality({ j \in 1..n : Before(j, i) }) = k - 1]
    IN  [k \in 1..n |-> ascending[n + 1 - k]]

\* lines 90-113: what the bar plot shows, sorted_importances[:8] against
\* sorted_features[:8]
TopBars(importances, feature_names, low_first) ==
    LET indices == ArgSortReversed(importances, low_first)
    IN  [k \in 1..TOP_N |->
           [name |-> feature_names[indices[k]], importance |-> importances[indices[k]]]]

CallPredict(model) ==
    [pc |-> "called", model |-> model, pred_class |-> None, probability |-> None,
     feature_plot_path |-> None, plot |-> << >>, result |-> << >>, error |-> NoError]

\* lines 65-71: _load_artifacts, transform, model.predict, int(prediction[0])
PredictLabel ==
    /\ call.pc = "called"
    /\ call' = [call EXCEPT !.pc = "labelled",
                            !.pred_class = [t |-> "int", s |-> call.model.label]]
    /\ UNCHANGED <<trainVars, serveVars, disk, ev, ingestion, prep, fits, web>>

\* one of lines 65, 67, 70 raises: the outer except re-raises it
PredictFails ==
    /\ call.pc = "called"
    /\ \E e \in PredictFaults :
          call' = [call EXCEPT !.pc = "raised", !.error = e]
    /\ UNCHANGED <<trainVars, serveVars, disk, ev, ingestion, prep, fits, web>>

\* lines 74-84
PredictProbability ==
    /\ call.pc = "labelled"
    /\ call' = [call EXCEPT !.pc = "scored",
                            !.probability = Probability(call.model, call.pred_class.s)]
    /\ UNCHANGED <<trainVars, serveVars, disk, ev, ingestion, prep, fits, web>>

\* lines 87-130: the plot is drawn and saved as feature_importance.png, or drawing
\* or saving raises and the path stays None
PredictPlot ==
    /\ call.pc = "scored"
    /\ \E low_first \in BOOLEAN, saved \in BOOLEAN :
          LET bars  == TopBars(call.model.importances, NUMERICAL_FEATURES, low_first)
              tried == IF ~call.model.has_importances
                       THEN [raised |-> TRUE,
                             value |-> [t |-> "error", s |-> "AttributeError"]]
                       ELSE [raised |-> ~saved,
                             value |-> [t |-> "str", s |-> "feature_importance.png"]]
              path  == Guarded(call.model.has_importances, tried)
          IN  call' = [call EXCEPT !.pc = "plotted",
                                   !.feature_plot_path = path,
                                   !.plot = IF path.t = "str" THEN bars ELSE << >>]
    /\ UNCHANGED <<trainVars, serveVars, disk, ev, ingestion, prep, fits, web>>

\* line 133
PredictReturn ==
    /\ call.pc = "plotted"
    /\ call' = [call EXCEPT
                  !.pc = "returned",
                  !.result = << call.pred_class, call.probability,
                                call.feature_plot_path >>]
    /\ UNCHANGED <<trainVars, serveVars, disk, ev, ingestion, prep, fits, web>>

PredictInit ==
    /\ TrainIdle
    /\ ServeIdle
    /\ disk = NoDisk
    /\ ingestion = << >>
    /\ prep = << >>
    /\ fits = << >>
    /\ web = << >>
    /\ \E model \in LoadedModels : call = CallPredict(model)

PredictNext ==
    \/ PredictLabel
    \/ PredictFails
    \/ PredictProbability
    \/ PredictPlot
    \/ PredictReturn

SpecPredict == PredictInit /\ [][PredictNext]_vars

(***************************************************************************)
(* Properties                                                              *)
(***************************************************************************)
IsPrefix(s, t) == Len(s) <= Len(t) /\ \A i \in DOMAIN s : s[i] = t[i]

NoDuplicateKeys(report) ==
    \A i, j \in DOMAIN report : i # j => report[i].name # report[j].name

\* C1: when evaluate_model returns (every fit and score succeeded), the report has
\* exactly one entry per name of the input mapping and no other, and the return
\* happens with the loop at its last model, every model refit.
C1_ReportCoversAllModels ==
    ev.status = "returned" =>
        /\ Len(ev.result) = Len(ev.order)
        /\ Keys(ev.result) = Range(ev.order)
        /\ NoDuplicateKeys(ev.result)
        /\ ev.i >= Len(ev.order)
        /\ \A n \in Range(ev.order) :
              models[n] = [params |-> "best", fit |-> "train"]

C1_Witness ==
    /\ ev.status = "returned"
    /\ Len(ev.order) >= 2
    /\ Len(ev.result) = Len(ev.order)

\* C2: once any call made for a model has failed, evaluate_model has raised, with
\* the failure's text in its error and no report as a result; and a report that is
\* returned never lacks a name of the input mapping.
C2_FailureAbortsEvaluation ==
    /\ ev.faulted # << >> =>
          /\ ev.status = "raised"
          /\ ev.result = << >>
          /\ ev.error.raised
          /\ ev.error.text = ev.faulted[1].text
          /\ Len(ev.faulted) = 1
    /\ ev.status = "returned" => Range(ev.order) \subseteq Keys(ev.result)

C2_Witness ==
    /\ ev.status = "raised"
    /\ ev.faulted # << >>
    /\ ev.i >= 2
    /\ ev.report # << >>

AccOf(report, name) ==
    report[CHOOSE i \in DOMAIN report : report[i].name = name].acc

IndexOf(report, name) == CHOOSE i \in DOMAIN report : report[i].name = name

\* name has the maximum accuracy of the report and is the first name to have it
IsFirstMax(report, name) ==
    /\ name \in Keys(report)
    /\ \A i \in DOMAIN report : report[i].acc <= AccOf(report, name)
    /\ \A i \in DOMAIN report :
          i < IndexOf(report, name) => report[i].acc < AccOf(report, name)

\* C3: the name ModelTrainer.initiate selects from the report has the maximum
\* accuracy of the report, and among the names tied at the maximum it is the first
\* in the report's iteration order.
C3_SelectsFirstMaximum ==
    \A k \in DOMAIN saves :
        /\ ev.result # << >>
        /\ IsFirstMax(ev.result, saves[k].obj.name)

\* the report {A: hi, B: hi, C: lower, ...}: A is selected
C3_Witness ==
    /\ saves # << >>
    /\ ev.result[1].acc = ev.result[2].acc
    /\ ev.result[3].acc < ev.result[1].acc
    /\ \A i \in DOMAIN ev.result : ev.result[i].acc <= ev.result[1].acc
    /\ saves[1].obj.name = ev.result[1].name

\* C4: a training run writes the model artifact at most once (exactly once when it
\* completes), after evaluate_model has returned a report covering every model; the
\* object written is the estimator of the selected name, carrying its best
\* parameters and fit on the whole Train set of this run, and it is what is on disk.
C4_PersistsSelectedRefitModel ==
    /\ Len(saves) <= 1
    /\ pc = "done" => Len(saves) = 1
    /\ \A k \in DOMAIN saves :
          /\ saves[k].after = "returned"
          /\ saves[k].covered = Range(ModelOrder)
          /\ IsFirstMax(ev.result, saves[k].obj.name)
          /\ saves[k].obj.kind = "model"
          /\ saves[k].obj.params = "best"
          /\ saves[k].obj.fit = "train"
          /\ saves[k].obj.run = run_no
          /\ disk.model = saves[k].obj

C4_Witness ==
    /\ pc = "done"
    /\ Len(saves) = 1
    /\ saves[1].obj.name # ModelOrder[1]
    /\ disk.model = saves[1].obj

\* C5: in every invocation of run() the stages started form a prefix of Ingest,
\* Transform, Evaluate; a stage is started only when the stage before it has
\* completed, and is handed that stage's output of this same invocation; once a
\* stage has failed it stays the last stage started and the invocation has ended.
C5_StagesRunInOrder ==
    /\ IsPrefix(log, Stages)
    /\ \A k \in DOMAIN log : k > 1 => log[k - 1] \in completed
    /\ pc = "ingest" => log = << >>
    /\ Len(log) >= 2 => stage_in.transform = [ok |-> TRUE, run |-> run_no]
    /\ Len(log) >= 3 => stage_in.evaluate = [ok |-> TRUE, run |-> run_no]
    /\ fault.stage # "none" =>
          /\ pc = "failed"
          /\ log # << >>
          /\ log[Len(log)] = fault.stage
          /\ fault.stage \notin completed

\* an invocation that follows a failed one and has started all three stages
C5_Witness ==
    /\ run_no >= 2
    /\ outcomes # << >>
    /\ outcomes[Len(outcomes)] = "failed"
    /\ pc = "evaluate"
    /\ log = Stages

\* the file of the module that implements a stage
StageFile(stage) ==
    IF stage = "ingest" THEN "data/ingestion.py"
    ELSE IF stage = "transform" THEN "data/preprocessing.py"
    ELSE "models/trainer.py"

ErrorParts(e) == { e.frames[i].file : i \in DOMAIN e.frames } \cup { e.text }

\* C6 as stated: the error run() raises carries the original cause and the name of
\* the stage that failed.
C6_ErrorCarriesStageName ==
    error.raised =>
        /\ error.text = fault.text
        /\ fault.stage \in ErrorParts(error)

\* C6 as amended: the error run() raises carries the text of the original cause
\* and, in place of a stage name, file names and line numbers: first
\* pipelines/train.py with the line of run() that called the failed stage, then
\* the file of the failed stage's module.
C6_ErrorCarriesCauseAndCallSite ==
    error.raised =>
        /\ fault.stage \in StageNames
        /\ error.text = fault.text
        /\ Len(error.frames) >= 2
        /\ error.frames[1] = [file |-> "pipelines/train.py",
                              line |-> CallLine(fault.stage)]
        /\ error.frames[2].file = StageFile(fault.stage)
        /\ \A st \in StageNames :
              CallLine(st) = error.frames[1].line => st = fault.stage

C6_Witness ==
    /\ error.raised
    /\ fault.stage = "evaluate"
    /\ Len(error.frames) = 3
    /\ error.frames[3].file = "core/utils.py"

Slots == { "preprocessor", "model" }

\* C7 as stated: for every interleaving of the requests, each artifact is loaded
\* from disk at most once by a PredictionPipeline.
C7_EachArtifactLoadedAtMostOnce ==
    \A p \in DOMAIN loads : \A a \in Slots : loads[p][a] <= 1

\* C8: a cache slot that is filled is never emptied again; the transformer slot
\* holds nothing but a transformer read from the transformer artifact and the model
\* slot nothing but a model read from the model artifact; and a request that is at
\* the transform call or at the model's predict call finds the slot it uses filled.
C8_CacheNeverCorrupted ==
    /\ [][\A p \in DOMAIN cache : \A a \in Slots :
             cache[p][a] # NoFile => cache'[p][a] # NoFile]_vars
    /\ [](\A p \in DOMAIN cache :
             /\ cache[p].preprocessor.kind \in { "none", "transformer" }
             /\ cache[p].model.kind \in { "none", "model" })
    /\ [](\A r \in InFlight :
             /\ r.pc \in { "transform", "predict" } =>
                   /\ Slot(r).preprocessor.kind = "transformer"
                   /\ Slot(r).model.kind = "model"
             /\ r.pc = "predict" => r.used.kind = "transformer")

\* two requests of one route inside _load_artifacts together, one of them about to
\* assign a slot the other has already filled
C8_Witness ==
    \E r, u \in InFlight :
        /\ r.route = u.route
        /\ r.pc = "store_pre"
        /\ u.pc \in { "store_model", "transform", "predict" }
        /\ Slot(r).preprocessor # NoFile

\* C9 as stated: once a PredictionPipeline has cached both artifacts, predictions
\* keep using the objects that were loaded first: its cache never changes again.
C9_CachedObjectsNeverChange ==
    [][\A p \in DOMAIN cache :
          (cache[p].preprocessor # NoFile /\ cache[p].model # NoFile)
              => cache'[p] = cache[p]]_vars

\* C10 as stated: both routes predict with the same cached model.
C10_RoutesPredictWithSameModel ==
    \A r, u \in InFlight :
        (r.pc = "predict" /\ u.pc = "predict") => Slot(r).model = Slot(u).model

\* a request of route p that has found a slot empty and is about to load it
AboutToLoad(p, at) == [NewRequest(p) EXCEPT !.pc = at]

\* C10 as amended: each route has a cache of its own, the one of the
\* PredictionPipeline its module builds.  A slot of a route's cache changes only by
\* the assignment of a request of that route, an object is loaded for a route's
\* pipeline only by a request of that route, and while a slot of a route's cache is
\* filled no request of that route newly sets out to load it.
C10_EachRouteHasItsOwnCache ==
    /\ [][\A p \in DOMAIN cache : \A a \in Slots :
             cache'[p][a] # cache[p][a] =>
                \E r \in InFlight :
                   /\ r.route = p
                   /\ r.pc = (IF a = "model" THEN "store_model" ELSE "store_pre")
                   /\ cache'[p][a] = r.loaded]_vars
    /\ [][\A p \in DOMAIN loads : \A a \in Slots :
             loads'[p][a] # loads[p][a] =>
                \E r \in InFlight :
                   /\ r.route = p
                   /\ r.pc = (IF a = "model" THEN "load_model" ELSE "load_pre")]_vars
    /\ [][\A p \in DOMAIN cache :
             /\ cache[p].preprocessor # NoFile =>
                   CopiesIn(AboutToLoad(p, "load_pre"), req')
                      <= CopiesIn(AboutToLoad(p, "load_pre"), req)
             /\ cache[p].model # NoFile =>
                   CopiesIn(AboutToLoad(p, "load_model"), req')
                      <= CopiesIn(AboutToLoad(p, "load_model"), req)]_vars

\* the two routes hold models of different training runs
C10_Witness ==
    /\ cache["form"].model # NoFile
    /\ cache["api"].model # NoFile
    /\ cache["form"].model.run # cache["api"].model.run

\* C14: when the raw dataset lacks a required column, DataIngestion.initiate writes
\* no artifact (the raw, train and test files stay as they were before the call) and
\* gets no further than the column validation; the error it raises comes from the
\* validation and reports the set of missing columns (unless reading the dataset
\* itself has failed).
C14_MissingColumnsFailBeforeAnyWrite ==
    MissingColumns(ingestion.source.columns) # {} =>
        /\ disk = ingestion.before
        /\ ingestion.written = << >>
        /\ ingestion.pc \in { "read", "validate", "raised" }
        /\ ingestion.pc = "raised" =>
              /\ ingestion.error.raised
              /\ Len(ingestion.error.frames) = 1
              /\ ingestion.error.frames[1].file = "data/ingestion.py"
              /\ ingestion.error.frames[1].line \in { 56, 63 }
              /\ ingestion.error.frames[1].line = 63 =>
                    ingestion.error.text =
                       <<"Missing columns in dataset",
                         MissingColumns(ingestion.source.columns)>>

\* the call has failed on a missing column with an earlier run's artifacts in place
C14_Witness ==
    /\ ingestion.pc = "raised"
    /\ ingestion.missing # {}
    /\ ingestion.error.frames[1].line = 63
    /\ ingestion.before = EarlierArtifacts
    /\ disk = EarlierArtifacts

IsInjective(s) == \A i, j \in DOMAIN s : i # j => s[i] # s[j]

\* train_test_split has returned
SplitDone == ingestion.pc \in { "write_train", "write_test", "returned" }

\* train_set and test_set share no row and together hold each of the n rows once
IsPartition(train_set, test_set, n) ==
    /\ IsInjective(train_set)
    /\ IsInjective(test_set)
    /\ Range(train_set) \cap Range(test_set) = {}
    /\ Range(train_set) \cup Range(test_set) = 1..n

\* round(num / den), halves rounded to the even neighbour
RoundHalfEven(num, den) ==
    LET q == num \div den
        r == num % den
    IN  IF 2 * r < den THEN q
        ELSE IF 2 * r > den THEN q + 1
        ELSE IF q % 2 = 0 THEN q ELSE q + 1

\* C20 as stated: the split of an N-row dataset yields round(0.30 N) Test rows and
\* N - round(0.30 N) Train rows, disjoint and together covering every row once.
C20_SplitSizesRounded ==
    SplitDone =>
        /\ Len(ingestion.test_set) = RoundHalfEven(TEST_SIZE_PERCENT * ingestion.n, 100)
        /\ Len(ingestion.train_set) =
              ingestion.n - RoundHalfEven(TEST_SIZE_PERCENT * ingestion.n, 100)
        /\ IsPartition(ingestion.train_set, ingestion.test_set, ingestion.n)

\* C20 as amended: for a dataset of N >= 2 rows the split yields ceil(0.30 N) Test
\* rows (the least t with t >= 0.30 N) and N - ceil(0.30 N) Train rows, no row is in
\* both sets and together they hold each of the N rows exactly once, and these are
\* the rows written to the train and test artifacts; for N <= 1 the split raises
\* and no train or test artifact is written.
C20_SplitSizesCeiling ==
    /\ SplitDone =>
          /\ ingestion.n >= 2
          /\ 100 * Len(ingestion.test_set) >= TEST_SIZE_PERCENT * ingestion.n
          /\ 100 * (Len(ingestion.test_set) - 1) < TEST_SIZE_PERCENT * ingestion.n
          /\ Len(ingestion.train_set) = ingestion.n - Len(ingestion.test_set)
          /\ IsPartition(ingestion.train_set, ingestion.test_set, ingestion.n)
    /\ ingestion.pc = "returned" =>
          /\ disk.raw.rows = [i \in 1..ingestion.n |-> i]
          /\ disk.train.rows = ingestion.train_set
          /\ disk.test.rows = ingestion.test_set
    /\ ingestion.source.n <= 1 =>
          /\ ~SplitDone
          /\ disk.train = ingestion.before.train
          /\ disk.test = ingestion.before.test

\* four rows split two and two, in an order other than the dataset's
C20_Witness ==
    /\ ingestion.pc = "returned"
    /\ ingestion.n = 4
    /\ Len(ingestion.test_set) = 2
    /\ Len(ingestion.train_set) = 2
    /\ ingestion.test_set # << 1, 2 >>

\* the frames have been capped (and are still the locals of the call)
Capped == prep.pc \in { "fit", "transform", "save", "returned", "raised" }

\* capped is raw with the same rows, every value of it within the limits computed
\* from raw's quartiles, the values that were within them as they were
IsCappedFrom(capped, raw) ==
    /\ Len(capped) = Len(raw)
    /\ \A i \in DOMAIN raw :
          /\ capped[i].nan = raw[i].nan
          /\ ~raw[i].nan =>
                /\ Limits(raw).lower <= capped[i].v
                /\ capped[i].v <= Limits(raw).upper
                /\ Limits(raw).upper - Limits(raw).lower =
                      8 * (Quantile4(raw, 3) - Quantile4(raw, 1))
                /\ (Limits(raw).lower <= 8 * raw[i].v /\ 8 * raw[i].v <= Limits(raw).upper)
                      => capped[i].v = 8 * raw[i].v

\* C15: after DataPreprocessor.initiate has capped the numeric column of Train and
\* of Test, each frame has exactly the rows it had in its file, and every value of
\* the column lies between lower = Q1 - 1.5 (Q3 - Q1) and upper = Q3 + 1.5 (Q3 - Q1)
\* of the column's quartiles before capping (a missing cell holds no value and
\* stays missing).
C15_CappingKeepsRowsWithinLimits ==
    Capped =>
        /\ IsCappedFrom(prep.train_df, disk.train.rows)
        /\ IsCappedFrom(prep.test_df, disk.test.rows)

\* a Train value was lowered to the upper limit and a Test value raised to the
\* lower limit
C15_Witness ==
    /\ prep.pc = "fit"
    /\ \E i \in DOMAIN prep.train_df :
          /\ ~prep.train_df[i].nan
          /\ prep.train_df[i].v < 8 * disk.train.rows[i].v
    /\ \E i \in DOMAIN prep.test_df :
          /\ ~prep.test_df[i].nan
          /\ prep.test_df[i].v > 8 * disk.test.rows[i].v

\* C16: the preprocessor is fitted by fit_transform on Train and only then applied
\* to Test by transform; from the fit on, through transform and up to the artifact
\* written, its statistics are those of the capped Train frame alone; and every run
\* on the same Train set persists the same transformer whatever its Test set is.
C16_TransformerFitOnTrainOnly ==
    /\ IsPrefix(prep.calls, << <<"fit_transform", "X_train">>,
                               <<"transform", "X_test">> >>)
    /\ prep.pc \in { "transform", "save", "returned" } =>
          /\ Present(disk.train.rows) # << >>
          /\ prep.preprocessor = Fit(Cap(disk.train.rows))
          /\ prep.train_arr = Transform(prep.preprocessor, Cap(disk.train.rows))
    /\ prep.pc \in { "save", "returned" } =>
          /\ Len(prep.calls) = 2
          /\ Present(disk.train.rows) # << >>
          /\ prep.test_arr = Transform(Fit(Cap(disk.train.rows)), Cap(disk.test.rows))
    /\ prep.pc = "returned" =>
          /\ disk.preprocessor.stats = prep.preprocessor
          /\ prep.persisted[Len(prep.persisted)] = prep.preprocessor
    /\ \A i, j \in DOMAIN prep.persisted : prep.persisted[i] = prep.persisted[j]

\* two runs on one Train set with a missing cell, the second with another Test set
\* that has a missing cell and a value the Train set's median differs from
C16_Witness ==
    /\ prep.pc = "returned"
    /\ Len(prep.persisted) = 2
    /\ \E i \in DOMAIN disk.train.rows : disk.train.rows[i].nan
    /\ \E i \in DOMAIN disk.test.rows : disk.test.rows[i].nan
    /\ \E i \in DOMAIN disk.test.rows :
          /\ ~disk.test.rows[i].nan
          /\ 16 * disk.test.rows[i].v # prep.preprocessor.median

\* C17 as stated: two fresh runs of the training pipeline on the same dataset with
\* the same seeds select a model that gives the same label to the same Feature Row.
C17_FreshRunsPredictSameLabel ==
    (fits.first.done /\ fits.second.done) => fits.first.label = fits.second.label

\* a field that is missing, empty or not a number: absent, a blank text, a text
\* that spells no number, or a JSON value that is neither text nor number
Offending(value) ==
    \/ value.t \in { "none", "list" }
    \/ value.t = "str" /\ Strip(value.s) = << >>
    \/ value.t = "str" /\ value.s = << "a", "b", "c" >>

\* C13: on both entry points a request in which one of the twelve required fields
\* is missing, empty or not a number is rejected before the transformer or the
\* model is invoked, with an error that names an offending field.
C13_BadFieldRejectedNamingIt ==
    (/\ web # << >>
     /\ web.pc = "done"
     /\ \E f \in Range(NUMERICAL_FEATURES) : Offending(web.form[f]))
    => /\ ~web.invoked
       /\ web.resp.kind = "error"
       /\ web.resp.field \in Range(NUMERICAL_FEATURES)
       /\ Offending(web.form[web.resp.field])

\* C18: when predict raises after validation has passed, the entry point answers
\* with an error response that carries the description of the failure, on the
\* form route as on the JSON route.
C18_InferenceFailureAnsweredWithDescription ==
    (/\ web # << >>
     /\ web.pc = "done"
     /\ web.failure.raised)
    => /\ web.resp.kind = "error"
       /\ web.resp.description = web.failure

\* C11: whenever predict returns a confidence score, it is the entry of the model's
\* probability vector at the position of the returned label in classes_, whatever
\* the vector and the label, also when the largest probability is another class's.
C11_ConfidenceIsOfPredictedClass ==
    (/\ call # << >>
     /\ call.pc = "returned"
     /\ call.result[2].t # "none")
    => /\ call.result[2].t = "float"
       /\ \E i \in DOMAIN call.model.classes :
             /\ call.model.classes[i] = call.result[1].s
             /\ call.result[2].s = call.model.proba[i]

\* a confidence was returned that is not the largest entry of the vector
C11_Witness ==
    /\ call # << >>
    /\ call.pc = "returned"
    /\ call.result[2].t = "float"
    /\ \E j \in DOMAIN call.model.proba : call.model.proba[j] > call.result[2].s

\* C12: whatever optional capabilities the loaded model has, predict returns the
\* label, the confidence or None, and the importance output or None together; an
\* output is None when the model lacks the capability, and once the label is
\* computed predict does not raise.
C12_MissingCapabilityIsNoError ==
    call # << >> =>
       /\ call.pc = "raised" => call.pred_class.t = "none"
       /\ call.pc = "returned" =>
             /\ Len(call.result) = 3
             /\ call.result[1].t = "int"
             /\ call.result[2].t \in
                  (IF call.model.has_proba THEN { "float", "none" } ELSE { "none" })
             /\ call.result[3].t \in
                  (IF call.model.has_importances THEN { "str", "none" } ELSE { "none" })

\* predict returned for a model with neither probabilities nor importances
C12_Witness ==
    /\ call # << >>
    /\ call.pc = "returned"
    /\ ~call.model.has_proba
    /\ ~call.model.has_importances
    /\ call.result[2].t = "none"
    /\ call.result[3].t = "none"

\* bars are the TOP_N features by descending importance, each importance paired
\* with the name at its position in feature_names
IsTopRanking(bars, importances, feature_names) ==
    LET Pos(name) == CHOOSE i \in DOMAIN feature_names : feature_names[i] = name
        shown == { Pos(bars[k].name) : k \in DOMAIN bars }
    IN  /\ Len(bars) = TOP_N
        /\ \A k \in DOMAIN bars :
              /\ bars[k].name \in Range(feature_names)
              /\ bars[k].importance = importances[Pos(bars[k].name)]
        /\ Cardinality(shown) = TOP_N
        /\ \A k \in 1..(TOP_N - 1) : bars[k].importance >= bars[k + 1].importance
        /\ \A i \in DOMAIN feature_names \ shown :
              importances[i] <= bars[TOP_N].importance

\* C19 as stated: when the model exposes importances, the third output of predict
\* is the top-8 ranking itself, as (feature name, importance) pairs.
C19_ThirdOutputIsRanking ==
    (/\ call # << >>
     /\ call.pc = "returned"
     /\ call.model.has_importances)
    => /\ call.result[3].t = "list"
       /\ IsTopRanking(call.result[3].s, call.model.importances, NUMERICAL_FEATURES)

\* C19: when the model exposes importances, the third output of predict is None or
\* the file name feature_importance.png, and in the latter case the plot saved
\* under that name shows the top 8 features by descending importance, each
\* importance labelled with the name at the same position of the input row's
\* columns.
C19_ThirdOutputNamesPlotOfRanking ==
    (/\ call # << >>
     /\ call.pc = "returned"
     /\ call.model.has_importances)
    => /\ call.result[3].t \in { "str", "none" }
       /\ call.result[3].t = "str" =>
             /\ call.result[3].s = "feature_importance.png"
             /\ IsTopRanking(call.plot, call.model.importances, NUMERICAL_FEATURES)

\* a plot was returned that leaves out features with an importance above zero
C19_Witness ==
    /\ call # << >>
    /\ call.pc = "returned"
    /\ call.model.has_importances
    /\ call.result[3].t = "str"
    /\ \E i \in DOMAIN NUMERICAL_FEATURES :
          /\ call.model.importances[i] > 0
          /\ \A k \in DOMAIN call.plot : call.plot[k].name # NUMERICAL_FEATURES[i]

\* the integer a field carries, as a text (blanks around it allowed) or as a JSON
\* number, lies in the range the validator accepts for that field
InRangeInteger(f, value) ==
    LET n == IF value.t = "int" THEN DecimalValue(value.s) ELSE IntOf(value.s).n
    IN  /\ value.t \in { "str", "int" }
        /\ value.t = "str" => IntOf(value.s).ok
        /\ f = "age" => n >= 0 /\ n <= 120
        /\ f = "hours_per_week" => n >= 0 /\ n <= 168
        /\ f \in { "capital_gain", "capital_loss" } => n >= 0

\* C23: a request whose twelve required fields all carry in-range integers passes
\* validate_prediction_input on both entry points, the values being texts on the
\* form route and possibly JSON numbers on the JSON route: it is not answered at
\* the validation step, neither with an error nor by an exception.
C23_InRangeIntegersPassValidation ==
    (/\ web # << >>
     /\ web.pc = "done"
     /\ \A f \in Range(NUMERICAL_FEATURES) : InRangeInteger(f, web.form[f]))
    => web.invoked

\* C21: between invocations of TrainingPipeline.run, however the earlier ones
\* ended, the transformer file and the model file on disk come from the same
\* invocation: the persisted model was fitted on arrays that the persisted
\* transformer produced.
C21_ArtifactsFromSameRun ==
    (/\ pc \in { "idle", "done", "failed" }
     /\ disk.preprocessor.kind = "transformer"
     /\ disk.model.kind = "model")
    => disk.preprocessor.run = disk.model.run

\* C22: whenever a PredictionPipeline applies its cached model to the row its
\* cached transformer has scaled, the two objects come from the same training
\* run, however predict calls interleave with training runs that overwrite the
\* artifacts.
C22_CachedPairFromSameRun ==
    \A r \in InFlight :
       r.pc = "predict" => r.used.run = Slot(r).model.run

\* request r takes a step to position next (the rest of it unchanged)
Moves(r, next) ==
    req' = (req (-) SetToBag({ r })) (+) SetToBag({ [r EXCEPT !.pc = next] })

\* C24: a predict call whose load of an artifact fails raises without having
\* applied the transformer or the model and leaves the cache as it was: what was
\* loaded stays cached, the attribute whose load failed is not assigned.  A call
\* loads an artifact exactly when it finds the attribute empty, so the next call
\* retries the failed load only and succeeds once the file can be read.
C24_FailedLoadLeavesCacheAndIsRetried ==
    [][\A r \in InFlight :
          /\ (r.pc \in { "load_pre", "load_model" } /\ Leaves(r)) =>
                /\ r.used = NoFile
                /\ cache' = cache
                /\ loads'[PipelineOf(r.route)].failed # {}
          /\ (r.pc = "check_pre" /\ Moves(r, "load_pre")) =>
                Slot(r).preprocessor = NoFile
          /\ (r.pc = "check_pre" /\ Moves(r, "check_model")) =>
                Slot(r).preprocessor # NoFile
          /\ (r.pc = "check_model" /\ Moves(r, "load_model")) =>
                Slot(r).model = NoFile
          /\ (r.pc = "check_model" /\ Moves(r, "transform")) =>
                Slot(r).model # NoFile]_vars

\* the first training run had not written the model yet when a call failed to
\* load it; the transformer was loaded once and stayed cached, the model was
\* loaded once the file was there, and a call is about to apply it
C24_Witness ==
    \E r \in InFlight :
       LET p == PipelineOf(r.route)
       IN  /\ r.pc = "predict"
           /\ loads[p].failed = { "model" }
           /\ loads[p].preprocessor = 1
           /\ loads[p].model = 1
           /\ nreq >= 2
           /\ run_no = 1
           /\ \A q \in Pipelines \ { p } :
                 loads[q] = [preprocessor |-> 0, model |-> 0, failed |-> {}]

====
